---- MODULE Spec2Model ----
(***************************************************************************)
(* A model of ofd/protocol.py: the field codecs (Byte, U32, String,        *)
(* UnixTime, VLN, FVLN), the recursive TLV container decoder STLV.unpack   *)
(* driven by the DOCUMENTS registry, and the SessionHeader / FrameHeader   *)
(* records with their validation and the frame checksum.                   *)
(*                                                                         *)
(* Bytes are the integers 0..255 and a buffer is a sequence of bytes.      *)
(* Integers wider than 31 bits (the '<I' and '<Q' fields, the FVLN         *)
(* mantissa, Decimal coefficients) are kept exactly as sequences of        *)
(* decimal digits, most significant first, <<0>> being zero.               *)
(***************************************************************************)
EXTENDS Integers, Sequences, FiniteSets, TLC

VARIABLES
    tag,       \* decode: the registry tag of the document whose unpack is called
    buf,       \* the input buffer handed to the operation under way
    stack,     \* decode: the activation records of STLV.unpack, innermost last
    status,    \* "call" before the operation, then "run", "done" or "error"
    returned,  \* <<>> while nothing was returned, <<v>> once v was returned
    err,       \* the exception raised ("" when none)
    hdr,       \* headers: <<>> or <<h>>, the header object at hand
    body,      \* frame: the body of the last recalculate_crc call
    lastOp     \* the operation that produced this state

vars == <<tag, buf, stack, status, returned, err, hdr, body, lastOp>>

----------------------------------------------------------------------------
(* Bounds of the model.                                                    *)

\* Longest buffer of the enumerated TLV inputs.
MaxBufLen == 12
\* Most bytes cut off the end of a well-framed TLV buffer.
MaxCut == 3
\* Longest run of fill bytes in a scalar payload.
MaxFill == 8
\* Longest frame body handed to recalculate_crc.
MaxBodyLen == 2

----------------------------------------------------------------------------
(* Bytes, slices and exact integers.                                       *)

Min(a, b) == IF a < b THEN a ELSE b

\* n copies of byte b (b * n on a one-byte bytes object; empty for n <= 0).
Rep(b, n) == [i \in 1..n |-> b]

\* Python's data[lo:hi] for 0 <= lo, 0 <= hi: clipped to the buffer, never an error.
Slice(data, lo, hi) == SubSeq(data, Min(lo, Len(data)) + 1, Min(hi, Len(data)))

\* Python's data[lo:].
SliceFrom(data, lo) == SubSeq(data, Min(lo, Len(data)) + 1, Len(data))

\* struct '<H' packing of a value in 0..65535.
LE16(v) == <<v % 256, v \div 256>>

\* struct '<H' unpacking of exactly two bytes.
U16(b) == b[1] + 256 * b[2]

\* struct 'b': a byte read as a signed 8-bit integer.
Signed8(b) == IF b >= 128 THEN b - 256 ELSE b

Zero == <<0>>

RECURSIVE Reverse(_)
Reverse(s) == IF s = <<>> THEN <<>> ELSE Reverse(Tail(s)) \o <<Head(s)>>

\* F(a) with a computed once.  The bound variable of a set constructor holds
\* a value; an operator's argument is an expression, computed again wherever
\* the operator uses it.
Bind(F(_), a) == CHOOSE v \in { F(x) : x \in {a} } : TRUE

\* The decimal digits of a small natural c, least significant first (none for 0).
RECURSIVE DigitsLE(_)
DigitsLE(c) == IF c = 0 THEN <<>> ELSE <<c % 10>> \o DigitsLE(c \div 10)

\* ds * k + c on digits held least significant first.
RECURSIVE MulAddLE(_, _, _)
MulAddLE(ds, k, c) ==
    IF ds = <<>> THEN DigitsLE(c)
    ELSE Bind(LAMBDA t : <<t % 10>> \o MulAddLE(Tail(ds), k, t \div 10),
              Head(ds) * k + c)

\* Drops high-order zero digits (digits most significant first).
RECURSIVE Canon(_)
Canon(ds) ==
    IF ds = <<>> THEN Zero
    ELSE IF Head(ds) = 0 /\ Len(ds) > 1 THEN Canon(Tail(ds))
    ELSE ds

\* n * k + c for an exact natural n and small naturals k, c.
MulAdd(n, k, c) ==
    Bind(Canon, Bind(Reverse, Bind(LAMBDA ds : MulAddLE(ds, k, c), Reverse(n))))

\* struct '<I' / '<Q' unpacking: the little-endian value of the bytes.
RECURSIVE LEValue(_)
LEValue(bs) ==
    IF bs = <<>> THEN Zero
    ELSE Bind(LAMBDA high : MulAdd(high, 256, Head(bs)), LEValue(Tail(bs)))

\* Long division of an exact natural by 256: <<quotient, remainder>>.
RECURSIVE DivMod256(_, _, _)
DivMod256(ds, q, r) ==
    IF ds = <<>> THEN <<Canon(q), r>>
    ELSE LET cur == r * 10 + Head(ds)
         IN  DivMod256(Tail(ds), q \o <<cur \div 256>>, cur % 256)

\* struct '<I' / '<H' packing of an exact natural into n little-endian bytes.
RECURSIVE ToLE(_, _)
ToLE(num, n) ==
    IF n = 0 THEN <<>>
    ELSE LET qr == DivMod256(num, <<>>, 0)
         IN  <<qr[2]>> \o ToLE(qr[1], n - 1)

----------------------------------------------------------------------------
(* The registry.                                                           *)

DocumentEntries ==
  << [tag |-> 1, codec |-> "STLV", name |-> "Otchet o fiskalizacii", maxlen |-> 658],
     [tag |-> 3, codec |-> "STLV", name |-> "Kassovyj chek", maxlen |-> 32768],
     [tag |-> 7, codec |-> "STLV", name |-> "Podtverzhdenie operatora", maxlen |-> 362],
     [tag |-> 1001, codec |-> "Byte", name |-> "Avtomaticheskij rezhim", maxlen |-> 1],
     [tag |-> 1002, codec |-> "Byte", name |-> "Avtonomnyj rezhim", maxlen |-> 1],
     [tag |-> 1003, codec |-> "String", name |-> "Adres bankovskogo agenta", maxlen |-> 256],
     [tag |-> 1004, codec |-> "String", name |-> "Adres bankovskogo subagenta", maxlen |-> 256],
     [tag |-> 1005, codec |-> "String", name |-> "Adres operatora po perevodu denezhnyh sredstv", maxlen |-> 256],
     [tag |-> 1006, codec |-> "String", name |-> "Adres platezhnogo agenta", maxlen |-> 256],
     [tag |-> 1007, codec |-> "String", name |-> "Adres platezhnogo subagenta", maxlen |-> 256],
     [tag |-> 1008, codec |-> "String", name |-> "Adres pokupatelya", maxlen |-> 64],
     [tag |-> 1009, codec |-> "String", name |-> "Adres raschetov", maxlen |-> 256],
     [tag |-> 1010, codec |-> "VLN", name |-> "Razmer voznagrazhdeniya bankovskogo agenta (subagenta)", maxlen |-> 8],
     [tag |-> 1011, codec |-> "VLN", name |-> "Razmer voznagrazhdeniya platezhnogo agenta (subagenta)", maxlen |-> 8],
     [tag |-> 1012, codec |-> "UnixTime", name |-> "Vremya, data", maxlen |-> 4],
     [tag |-> 1013, codec |-> "String", name |-> "Zavodskoj nomer KKT", maxlen |-> 10],
     [tag |-> 1014, codec |-> "String", name |-> "Znachenie tipa stroka", maxlen |-> 64],
     [tag |-> 1015, codec |-> "U32", name |-> "Znachenie tipa celoe", maxlen |-> 4],
     [tag |-> 1016, codec |-> "String", name |-> "INN operatora po perevodu denezhnyh sredstv", maxlen |-> 12],
     [tag |-> 1017, codec |-> "String", name |-> "INN OFD", maxlen |-> 12],
     [tag |-> 1018, codec |-> "String", name |-> "INN polzovatelya", maxlen |-> 12],
     [tag |-> 1019, codec |-> "String", name |-> "Informacionnoe coobschenie", maxlen |-> 64],
     [tag |-> 1020, codec |-> "VLN", name |-> "ITOG", maxlen |-> 8],
     [tag |-> 1021, codec |-> "String", name |-> "Kassir", maxlen |-> 64],
     [tag |-> 1022, codec |-> "Byte", name |-> "Kod otveta OFD", maxlen |-> 1],
     [tag |-> 1023, codec |-> "FVLN", name |-> "Kolichestvo", maxlen |-> 8],
     [tag |-> 1024, codec |-> "String", name |-> "Naimenovanie bankovskogo agenta", maxlen |-> 64],
     [tag |-> 1025, codec |-> "String", name |-> "Naimenovanie bankovskogo subagenta", maxlen |-> 64],
     [tag |-> 1026, codec |-> "String", name |-> "Naimenovanie operatora po perevodu denezhnyh sredstv", maxlen |-> 64],
     [tag |-> 1027, codec |-> "String", name |-> "Naimenovanie platezhnogo agenta", maxlen |-> 64],
     [tag |-> 1028, codec |-> "String", name |-> "Naimenovanie platezhnogo subagenta", maxlen |-> 64],
     [tag |-> 1029, codec |-> "String", name |-> "Naimenovanie rekvizita", maxlen |-> 64],
     [tag |-> 1030, codec |-> "String", name |-> "Naimenovanie tovara", maxlen |-> 64],
     [tag |-> 1031, codec |-> "VLN", name |-> "Nalichnymi", maxlen |-> 8],
     [tag |-> 1032, codec |-> "STLV", name |-> "Nalog", maxlen |-> 33],
     [tag |-> 1033, codec |-> "STLV", name |-> "Nalogi", maxlen |-> 33],
     [tag |-> 1034, codec |-> "FVLN", name |-> "Nacenka (stavka)", maxlen |-> 8],
     [tag |-> 1035, codec |-> "VLN", name |-> "Nacenka (summa)", maxlen |-> 8],
     [tag |-> 1036, codec |-> "String", name |-> "Nomer avtomata", maxlen |-> 12],
     [tag |-> 1037, codec |-> "String", name |-> "Nomer KKT", maxlen |-> 20],
     [tag |-> 1038, codec |-> "U32", name |-> "Nomer smeny", maxlen |-> 4],
     [tag |-> 1039, codec |-> "String", name |-> "Zarezervirovan", maxlen |-> 12],
     [tag |-> 1040, codec |-> "U32", name |-> "Nomer fiskalnogo dokumenta", maxlen |-> 4],
     [tag |-> 1041, codec |-> "String", name |-> "Zavodskoj nomer fiskalnogo nakopitelya", maxlen |-> 16],
     [tag |-> 1042, codec |-> "U32", name |-> "Nomer cheka", maxlen |-> 4],
     [tag |-> 1043, codec |-> "VLN", name |-> "Obschaya stoimost pozicii s uchetom skidok i nacenok", maxlen |-> 8],
     [tag |-> 1044, codec |-> "String", name |-> "Operaciya bankovskogo agenta", maxlen |-> 24],
     [tag |-> 1045, codec |-> "String", name |-> "operaciya bankovskogo subagenta", maxlen |-> 24],
     [tag |-> 1046, codec |-> "String", name |-> "OFD", maxlen |-> 64],
     [tag |-> 1047, codec |-> "STLV", name |-> "Parametr nastrojki", maxlen |-> 144],
     [tag |-> 1048, codec |-> "String", name |-> "Polzovatel", maxlen |-> 64],
     [tag |-> 1049, codec |-> "String", name |-> "Pochtovyj indeks", maxlen |-> 6],
     [tag |-> 1050, codec |-> "Byte", name |-> "Priznak ischerpaniya resursa FN", maxlen |-> 1],
     [tag |-> 1051, codec |-> "Byte", name |-> "Priznak neobhodimosti srochnoj zameny FN", maxlen |-> 1],
     [tag |-> 1052, codec |-> "Byte", name |-> "Priznak perepolneniya pamyati FN", maxlen |-> 1],
     [tag |-> 1053, codec |-> "Byte", name |-> "Priznak prevysheniya vremeni ozhidaniya otveta OFD", maxlen |-> 1],
     [tag |-> 1054, codec |-> "Byte", name |-> "Priznak rascheta", maxlen |-> 1],
     [tag |-> 1055, codec |-> "Byte", name |-> "Priznak sistemy nalogooblozheniya", maxlen |-> 1],
     [tag |-> 1056, codec |-> "Byte", name |-> "Priznak shifrovaniya", maxlen |-> 1],
     [tag |-> 1057, codec |-> "Byte", name |-> "Primenenie platezhnymi agentami (subagentami)", maxlen |-> 1],
     [tag |-> 1058, codec |-> "Byte", name |-> "Primenenie bankovskimi agentami (subagentami)", maxlen |-> 1],
     [tag |-> 1059, codec |-> "STLV", name |-> "Rekvizity tovara", maxlen |-> 132],
     [tag |-> 1060, codec |-> "String", name |-> "Sajt nalogovogo organa", maxlen |-> 64],
     [tag |-> 1061, codec |-> "String", name |-> "Sajt OFD", maxlen |-> 64],
     [tag |-> 1062, codec |-> "Byte", name |-> "Zarezervirovan", maxlen |-> 1],
     [tag |-> 1063, codec |-> "FVLN", name |-> "Skidka (stavka)", maxlen |-> 8],
     [tag |-> 1064, codec |-> "VLN", name |-> "Skidka (summa)", maxlen |-> 8],
     [tag |-> 1065, codec |-> "String", name |-> "Sokraschennoe naimenovanie naloga", maxlen |-> 10],
     [tag |-> 1066, codec |-> "String", name |-> "Soobschenie", maxlen |-> 256],
     [tag |-> 1067, codec |-> "STLV", name |-> "Soobschenie operatora dlya KKT", maxlen |-> 216],
     [tag |-> 1068, codec |-> "STLV", name |-> "Soobschenie operatora dlya FN", maxlen |-> 169],
     [tag |-> 1069, codec |-> "STLV", name |-> "Soobschenie operatoru", maxlen |-> 328],
     [tag |-> 1070, codec |-> "FVLN", name |-> "Stavka naloga", maxlen |-> 5],
     [tag |-> 1071, codec |-> "STLV", name |-> "Storno tovara", maxlen |-> 132],
     [tag |-> 1072, codec |-> "VLN", name |-> "Summa naloga", maxlen |-> 8],
     [tag |-> 1073, codec |-> "String", name |-> "Telefon bankovskogo agenta", maxlen |-> 19],
     [tag |-> 1074, codec |-> "String", name |-> "Telefon platezhnogo agenta", maxlen |-> 19],
     [tag |-> 1075, codec |-> "String", name |-> "Telefon operatora po perevodu denezhnyh sredstv", maxlen |-> 19],
     [tag |-> 1076, codec |-> "String", name |-> "Tip soobscheniya", maxlen |-> 64],
     [tag |-> 1077, codec |-> "String", name |-> "Fiskalnyj priznak dokumenta", maxlen |-> 6],
     [tag |-> 1078, codec |-> "String", name |-> "Fiskalnyj priznak operatora", maxlen |-> 18],
     [tag |-> 1079, codec |-> "VLN", name |-> "Cena za edinicu", maxlen |-> 8],
     [tag |-> 1080, codec |-> "String", name |-> "Shtrihovoj kod EAN13", maxlen |-> 16],
     [tag |-> 1081, codec |-> "VLN", name |-> "Elektronnymi", maxlen |-> 8],
     [tag |-> 1082, codec |-> "String", name |-> "Telefon bankovskogo subagenta", maxlen |-> 19],
     [tag |-> 1083, codec |-> "String", name |-> "Telefon platezhnogo subagenta", maxlen |-> 19],
     [tag |-> 1084, codec |-> "STLV", name |-> "Dopolnitelnyj rekvizit", maxlen |-> 328],
     [tag |-> 1085, codec |-> "String", name |-> "Naimenovanie dopolnitelnogo rekvizita", maxlen |-> 64],
     [tag |-> 1086, codec |-> "String", name |-> "Znachenie dopolnitelnogo rekvizita", maxlen |-> 256] >>
CP866 ==
  << 0, 1, 2, 3, 4, 5, 6, 7, 8, 9, 10, 11,
     12, 13, 14, 15, 16, 17, 18, 19, 20, 21, 22, 23,
     24, 25, 26, 27, 28, 29, 30, 31, 32, 33, 34, 35,
     36, 37, 38, 39, 40, 41, 42, 43, 44, 45, 46, 47,
     48, 49, 50, 51, 52, 53, 54, 55, 56, 57, 58, 59,
     60, 61, 62, 63, 64, 65, 66, 67, 68, 69, 70, 71,
     72, 73, 74, 75, 76, 77, 78, 79, 80, 81, 82, 83,
     84, 85, 86, 87, 88, 89, 90, 91, 92, 93, 94, 95,
     96, 97, 98, 99, 100, 101, 102, 103, 104, 105, 106, 107,
     108, 109, 110, 111, 112, 113, 114, 115, 116, 117, 118, 119,
     120, 121, 122, 123, 124, 125, 126, 127, 1040, 1041, 1042, 1043,
     1044, 1045, 1046, 1047, 1048, 1049, 1050, 1051, 1052, 1053, 1054, 1055,
     1056, 1057, 1058, 1059, 1060, 1061, 1062, 1063, 1064, 1065, 1066, 1067,
     1068, 1069, 1070, 1071, 1072, 1073, 1074, 1075, 1076, 1077, 1078, 1079,
     1080, 1081, 1082, 1083, 1084, 1085, 1086, 1087, 9617, 9618, 9619, 9474,
     9508, 9569, 9570, 9558, 9557, 9571, 9553, 9559, 9565, 9564, 9563, 9488,
     9492, 9524, 9516, 9500, 9472, 9532, 9566, 9567, 9562, 9556, 9577, 9574,
     9568, 9552, 9580, 9575, 9576, 9572, 9573, 9561, 9560, 9554, 9555, 9579,
     9578, 9496, 9484, 9608, 9604, 9612, 9616, 9600, 1088, 1089, 1090, 1091,
     1092, 1093, 1094, 1095, 1096, 1097, 1098, 1099, 1100, 1101, 1102, 1103,
     1025, 1105, 1028, 1108, 1031, 1111, 1038, 1118, 176, 8729, 183, 8730,
     8470, 164, 9632, 160 >>

\* DOCUMENTS: tag -> document (its codec class, name and maxlen).
DOCUMENTS ==
    [t \in {DocumentEntries[i].tag : i \in 1..Len(DocumentEntries)} |->
        LET i == CHOOSE j \in 1..Len(DocumentEntries) : DocumentEntries[j].tag = t
        IN  DocumentEntries[i]]

----------------------------------------------------------------------------
(* Outcomes: a returned value or a raised exception.                       *)

StructError == "struct.error"
KeyError == "KeyError"
InvalidOperation == "decimal.InvalidOperation"
StringTooLong == "ValueError: String actual size is greater than maximum"
VLNTooLong == "ValueError: VLN actual size is greater than maximum"
FVLNTooLong == "ValueError: FVLN actual size is greater than maximum"
STLVTooLong == "ValueError: STLV actual size is greater than maximum"

Ok(v) == [ok |-> TRUE, value |-> v, err |-> ""]
Raise(e) == [ok |-> FALSE, value |-> <<>>, err |-> e]

----------------------------------------------------------------------------
(* decimal.Decimal under the default context (28 digits of precision), as  *)
(* far as FVLN.unpack uses it.  A Decimal is its coefficient digits and    *)
(* its exponent; the sign is always +.                                     *)

DecimalPrec == 28

Dec(ds, e) == [digits |-> ds, exp |-> e]

\* The number of zero digits that end ds.
RECURSIVE TrailingZeros(_)
TrailingZeros(ds) ==
    IF ds = <<>> \/ ds[Len(ds)] # 0 THEN 0
    ELSE 1 + TrailingZeros(SubSeq(ds, 1, Len(ds) - 1))

\* decimal.Decimal(10) ** n for an integer n: exact, the coefficient padded
\* with zeros while it fits the precision.
DecimalPow10(n) ==
    IF n < 0 THEN Dec(<<1>>, n)
    ELSE IF n < DecimalPrec THEN Dec(<<1>> \o Rep(0, n), 0)
    ELSE Dec(<<1>> \o Rep(0, DecimalPrec - 1), n - (DecimalPrec - 1))

\* x / d for an integer x of at most 20 digits and d a power of ten as
\* DecimalPow10 gives it: the quotient is exact, and its exponent is as close
\* to the ideal exponent x.exp - d.exp as the coefficient allows.
DecimalDiv(x, d) ==
    LET k     == Len(d.digits) - 1
        ideal == x.exp - d.exp
        strip == Min(TrailingZeros(x.digits), k)
    IN  IF x.digits = Zero THEN Dec(Zero, ideal)
        ELSE Dec(SubSeq(x.digits, 1, Len(x.digits) - strip), ideal - (k - strip))

\* x.quantize(q): x with q's exponent.  Fails when the coefficient would
\* exceed the precision; a quantize that has to drop digits rounds, which is
\* reported as the outcome "inexact".
Quantize(x, q) ==
    IF x.digits = Zero THEN Ok(Dec(Zero, q.exp))
    ELSE IF q.exp > x.exp THEN Ok([inexact |-> TRUE])
    ELSE LET ds == x.digits \o Rep(0, x.exp - q.exp)
         IN  IF Len(ds) > DecimalPrec THEN Raise(InvalidOperation)
             ELSE Ok(Dec(ds, q.exp))

----------------------------------------------------------------------------
(* The field codecs.                                                       *)

\* Byte.unpack: struct 'B' takes exactly one byte.
Byte_unpack(data) ==
    IF Len(data) # 1 THEN Raise(StructError)
    ELSE Ok(LEValue(data))

\* U32.unpack: struct '<I' takes exactly four bytes.
U32_unpack(data) ==
    IF Len(data) # 4 THEN Raise(StructError)
    ELSE Ok(LEValue(data))

\* String.unpack without its size check.
String_unpack_unchecked(maxlen, data) ==
    IF Len(data) = 0 THEN Ok(<<>>)
    ELSE Ok([i \in 1..Len(data) |-> CP866[data[i] + 1]])

\* String.unpack: the cp866 decoding, a sequence of code points.
String_unpack(maxlen, data) ==
    IF Len(data) = 0 THEN Ok(<<>>)
    ELSE IF Len(data) > maxlen THEN Raise(StringTooLong)
    ELSE Ok([i \in 1..Len(data) |-> CP866[data[i] + 1]])

\* UnixTime.unpack: struct '<I' takes exactly four bytes.
UnixTime_unpack(data) ==
    IF Len(data) # 4 THEN Raise(StructError)
    ELSE Ok(LEValue(data))

\* VLN.unpack that pads at the low-order end.
VLN_unpack_pad_low(maxlen, data) ==
    IF Len(data) > maxlen THEN Raise(VLNTooLong)
    ELSE LET padded == Rep(0, 8 - Len(data)) \o data
         IN  IF Len(padded) # 8 THEN Raise(StructError)
             ELSE Ok(LEValue(padded))

\* VLN.unpack: the payload zero-padded to the 8 bytes of struct '<Q'.
VLN_unpack(maxlen, data) ==
    IF Len(data) > maxlen THEN Raise(VLNTooLong)
    ELSE LET padded == data \o Rep(0, 8 - Len(data))
         IN  IF Len(padded) # 8 THEN Raise(StructError)
             ELSE Ok(LEValue(padded))

\* FVLN.unpack: struct '<bQ' of the payload zero-padded to 9 bytes, then
\* (Decimal(num) / Decimal(10) ** pos).quantize(Decimal(10) ** -pos).
FVLN_unpack(maxlen, data) ==
    IF Len(data) > maxlen THEN Raise(FVLNTooLong)
    ELSE LET padded == data \o Rep(0, 9 - Len(data))
         IN  IF Len(padded) # 9 THEN Raise(StructError)
             ELSE LET pos == Signed8(padded[1])
                      num == LEValue(SubSeq(padded, 2, 9))
                      d   == DecimalPow10(pos)
                      q   == DecimalPow10(-pos)
                  IN  Bind(LAMBDA quotient : Quantize(quotient, q),
                           Bind(LAMBDA n : DecimalDiv(Dec(n, 0), d), num))

\* doc.unpack(data) for a document that is no STLV container.
Leaf_unpack(doc, data) ==
    CASE doc.codec = "Byte"     -> Byte_unpack(data)
      [] doc.codec = "U32"      -> U32_unpack(data)
      [] doc.codec = "String"   -> String_unpack(doc.maxlen, data)
      [] doc.codec = "UnixTime" -> UnixTime_unpack(data)
      [] doc.codec = "VLN"      -> VLN_unpack(doc.maxlen, data)
      [] doc.codec = "FVLN"     -> FVLN_unpack(doc.maxlen, data)

----------------------------------------------------------------------------
(* STLV.unpack, one step per loop iteration.  An activation record holds   *)
(* the locals of one running STLV.unpack: self (by its tag), data, result  *)
(* and the ty and length read last.                                        *)

NewFrame(self, data) ==
    [self |-> self, data |-> data, result |-> <<>>, ty |-> 0, length |-> 0]

\* The size check that opens STLV.unpack.
STLV_check(doc, data) ==
    IF Len(data) > doc.maxlen THEN Raise(STLVTooLong) ELSE Ok(data)

\* ty, length = struct.unpack('<HH', data[:4])
ReadHeader(data) ==
    LET h == Slice(data, 0, 4)
    IN  IF Len(h) # 4 THEN Raise(StructError)
        ELSE Ok([ty |-> U16(SubSeq(h, 1, 2)), length |-> U16(SubSeq(h, 3, 4))])

\* A lookup that takes a tag it does not know for an unnamed string.
Lookup_lenient(ty) ==
    IF ty \in DOMAIN DOCUMENTS THEN Ok(DOCUMENTS[ty])
    ELSE Ok([tag |-> ty, codec |-> "String", name |-> "", maxlen |-> 65535])

\* doc = DOCUMENTS[ty]
Lookup(ty) ==
    IF ty \in DOMAIN DOCUMENTS THEN Ok(DOCUMENTS[ty]) ELSE Raise(KeyError)

\* data[4:4 + length]
Payload(data, length) == Slice(data, 4, 4 + length)

\* An advance that forgets the four bytes of the sub-header.
Advance_payload_only(data, length) == SliceFrom(data, length)

\* data = data[4 + length:]
Advance(data, length) == SliceFrom(data, 4 + length)

\* result.append({'name': doc.name, 'value': value})
AppendEntry(result, doc, value) ==
    Append(result, [name |-> doc.name, value |-> value])

Top == stack[Len(stack)]

\* An exception leaves every running STLV.unpack at once: nothing catches it.
Throw(e) ==
    /\ status' = "error"
    /\ err' = e
    /\ returned' = <<>>
    /\ stack' = <<>>

----------------------------------------------------------------------------
(* The inputs of the decoder.                                              *)

\* A well-framed record: tag, length = len(payload), payload.
Rec(t, p) == LE16(t) \o LE16(Len(p)) \o p

\* The scalar records the enumerated buffers are made of.
LeafSamples ==
    { <<1001, <<7>>>>, <<1001, <<>>>>, <<1015, <<7, 0, 0, 0>>>>, <<1015, <<1>>>>,
      <<1021, <<>>>>, <<1021, <<65, 138>>>>, <<1020, <<5>>>>, <<1020, <<>>>>,
      <<1070, <<2, 57, 48>>>>, <<1012, <<0, 0, 0, 128>>>>,
      <<9999, <<>>>>, <<9999, <<1>>>> }

\* The container tags the enumerated buffers nest with.
NestTags == {1032}

\* The well-framed buffers of at most n bytes.
RECURSIVE Bufs(_)
Bufs(n) ==
    LET leaves == { Rec(s[1], s[2]) : s \in { x \in LeafSamples : 4 + Len(x[2]) <= n } }
        nests  == IF n < 4 THEN {}
                  ELSE { Rec(t, p) : t \in NestTags, p \in Bufs(n - 4) }
    IN  {<<>>} \cup
        UNION { { r \o rest : rest \in Bufs(n - Len(r)) } : r \in leaves \cup nests }

\* A buffer with its last j bytes missing.
Cut(b, j) == SubSeq(b, 1, Len(b) - j)

\* Buffers decoded as document 1: well framed, or cut short.
TLVInputs ==
    { <<1, Cut(b, j)>> : b \in Bufs(MaxBufLen), j \in 0..MaxCut }

\* Records at, and one byte past, the maxlen of their document.
LongInputs ==
    { <<1032, Rec(1021, Rep(65, 29))>>, <<1032, Rec(1021, Rep(65, 30))>>,
      <<1, Rec(1032, Rec(1021, Rep(65, 29)))>>,
      <<1, Rec(1032, Rec(1021, Rep(65, 30)))>>,
      <<1, Rec(1032, Rec(9999, Rep(65, 30)))>>,
      <<1, Rec(1049, Rep(65, 6))>>, <<1, Rec(1049, Rep(65, 7))>>,
      <<1, Rec(1020, Rep(255, 8))>>, <<1, Rec(1020, Rep(255, 9))>>,
      <<1, Rec(1070, <<2>> \o Rep(255, 4))>>, <<1, Rec(1070, <<2>> \o Rep(255, 5))>>,
      <<1, Rec(1023, <<244>> \o Rep(255, 7))>> }

\* The scalar documents called directly.
LeafTags == {1001, 1015, 1012, 1049, 1020, 1023, 1070}

\* Their payloads: a first byte, a run of fill bytes, a last byte or none.
ScalarPayloads ==
    {<<>>, <<2, 57, 48>>} \cup
    { <<a>> \o Rep(b, n) \o t :
        a \in {0, 1, 2, 28, 127, 128, 228, 244, 245, 255},
        b \in {0, 9, 255}, n \in 0..MaxFill, t \in {<<>>, <<0>>, <<1>>} }

Inputs ==
    TLVInputs \cup LongInputs \cup (LeafTags \X ScalarPayloads)

----------------------------------------------------------------------------
(* The calls and the loop of STLV.unpack, one action per step.              *)

\* DOCUMENTS[tag].unpack(buf) for a document that is no container.
UnpackLeaf ==
    /\ status = "call"
    /\ lastOp = "init"
    /\ DOCUMENTS[tag].codec # "STLV"
    /\ LET r == Leaf_unpack(DOCUMENTS[tag], buf)
       IN  IF r.ok
           THEN /\ status' = "done"
                /\ returned' = <<r.value>>
                /\ UNCHANGED <<err, stack>>
           ELSE Throw(r.err)
    /\ lastOp' = "unpack"
    /\ UNCHANGED <<tag, buf, hdr, body>>

\* DOCUMENTS[tag].unpack(buf) for a container: the size check, result = [].
UnpackSTLV ==
    /\ status = "call"
    /\ lastOp = "init"
    /\ DOCUMENTS[tag].codec = "STLV"
    /\ LET c == STLV_check(DOCUMENTS[tag], buf)
       IN  IF c.ok
           THEN /\ status' = "run"
                /\ stack' = <<NewFrame(tag, buf)>>
                /\ UNCHANGED <<err, returned>>
           ELSE Throw(c.err)
    /\ lastOp' = "enter"
    /\ UNCHANGED <<tag, buf, hdr, body>>

\* A loop iteration that raises before any codec runs: a short sub-header or
\* a tag the registry does not hold.
LoopFail ==
    /\ status = "run"
    /\ Top.data # <<>>
    /\ LET h == ReadHeader(Top.data)
       IN  IF ~h.ok THEN Throw(h.err)
           ELSE LET d == Lookup(h.value.ty)
                IN  /\ ~d.ok
                    /\ Throw(d.err)
    /\ lastOp' = "fail"
    /\ UNCHANGED <<tag, buf, hdr, body>>

\* A loop iteration whose document is a scalar codec.
LoopLeaf ==
    /\ status = "run"
    /\ Top.data # <<>>
    /\ LET h == ReadHeader(Top.data)
       IN  /\ h.ok
           /\ LET d == Lookup(h.value.ty)
              IN  /\ d.ok
                  /\ d.value.codec # "STLV"
                  /\ LET length == h.value.length
                         r      == Leaf_unpack(d.value, Payload(Top.data, length))
                     IN  IF r.ok
                         THEN /\ stack' = [stack EXCEPT ![Len(stack)] =
                                    [@ EXCEPT !.ty = h.value.ty,
                                              !.length = length,
                                              !.result = AppendEntry(@, d.value, r.value),
                                              !.data = Advance(@, length)]]
                              /\ UNCHANGED <<status, err, returned>>
                         ELSE Throw(r.err)
    /\ lastOp' = "leaf"
    /\ UNCHANGED <<tag, buf, hdr, body>>

\* A loop iteration whose document is a container: doc.unpack is entered.
LoopNested ==
    /\ status = "run"
    /\ Top.data # <<>>
    /\ LET h == ReadHeader(Top.data)
       IN  /\ h.ok
           /\ LET d == Lookup(h.value.ty)
              IN  /\ d.ok
                  /\ d.value.codec = "STLV"
                  /\ LET length == h.value.length
                         c      == STLV_check(d.value, Payload(Top.data, length))
                     IN  IF c.ok
                         THEN /\ stack' = [stack EXCEPT ![Len(stack)] =
                                    [@ EXCEPT !.ty = h.value.ty,
                                              !.length = length]]
                                    \o <<NewFrame(h.value.ty, c.value)>>
                              /\ UNCHANGED <<status, err, returned>>
                         ELSE Throw(c.err)
    /\ lastOp' = "nested"
    /\ UNCHANGED <<tag, buf, hdr, body>>

\* The loop ends (no byte remains) and result is returned: to the caller of
\* the outermost unpack, or into the enclosing loop iteration, which appends
\* the entry and moves on.
Return ==
    /\ status = "run"
    /\ Top.data = <<>>
    /\ IF Len(stack) = 1
       THEN /\ status' = "done"
            /\ returned' = <<Top.result>>
            /\ stack' = <<>>
            /\ UNCHANGED err
       ELSE LET f == stack[Len(stack) - 1]
            IN  /\ stack' = SubSeq(stack, 1, Len(stack) - 2) \o
                       <<[f EXCEPT !.result = AppendEntry(@, DOCUMENTS[f.ty], Top.result),
                                   !.data = Advance(@, f.length)]>>
                /\ UNCHANGED <<status, err, returned>>
    /\ lastOp' = "return"
    /\ UNCHANGED <<tag, buf, hdr, body>>

Init ==
    /\ \E in \in Inputs : tag = in[1] /\ buf = in[2]
    /\ stack = <<>>
    /\ status = "call"
    /\ returned = <<>>
    /\ err = ""
    /\ hdr = <<>>
    /\ body = <<>>
    /\ lastOp = "init"

Next ==
    \/ UnpackLeaf
    \/ UnpackSTLV
    \/ LoopFail
    \/ LoopLeaf
    \/ LoopNested
    \/ Return

\* Python runs the call to its end: a step that can be taken is taken.
Spec == Init /\ [][Next]_vars /\ WF_vars(Next)

----------------------------------------------------------------------------
(* The frame checksum: crcmod's predefined 'crc-ccitt-false', which is     *)
(* polynomial 0x1021, initial value 0xFFFF, not reflected, no final XOR.   *)

CrcPoly == 4129
CrcInit == 65535

RECURSIVE Xor(_, _)
Xor(a, b) ==
    IF a = 0 THEN b
    ELSE IF b = 0 THEN a
    ELSE ((a + b) % 2) + 2 * Xor(a \div 2, b \div 2)

\* One shift of the 16-bit register.
CrcShift(c) ==
    IF c >= 32768 THEN Xor((c * 2) % 65536, CrcPoly) ELSE (c * 2) % 65536

RECURSIVE CrcShifts(_, _)
CrcShifts(c, n) ==
    IF n = 0 \/ c < 0 THEN c ELSE CrcShifts(CrcShift(c), n - 1)

\* One byte fed to the register, most significant bit first.
CrcByte(c, b) == CrcShifts(Xor(c, b * 256), 8)

\* The register after the first n bytes of data.
RECURSIVE CrcFrom(_, _)
CrcFrom(data, n) ==
    IF n = 0 THEN CrcInit
    ELSE LET c == CrcFrom(data, n - 1)
         IN  IF c >= 0 THEN CrcByte(c, data[n]) ELSE c

\* f = crcmod.predefined.mkPredefinedCrcFun('crc-ccitt-false'); f(data)
CrcCcittFalse(data) == CrcFrom(data, Len(data))

----------------------------------------------------------------------------
(* FrameHeader.                                                            *)

MSGTYPE_ID == 2
VERSION_ID == 4
MSGTYPE == 165
VERSION == 1
FrameSize == 32

FrameSizeError == "ValueError: data size must be 32"
InvalidMessageType == "ValueError: invalid message type"
InvalidProtocolVersion == "ValueError: invalid protocol version"

\* struct 'Ns' packing: the bytes cut or zero-padded to n.
StructS(s, n) == SubSeq(s, 1, Min(Len(s), n)) \o Rep(0, n - Len(s))

\* FrameHeader.__init__
FrameHeader_init(length, crc, doctype, extra1, devnum, docnum, extra2) ==
    [length |-> length, crc |-> crc, msgtype |-> MSGTYPE, doctype |-> doctype,
     version |-> VERSION, devnum |-> devnum, docnum |-> docnum,
     extra1 |-> extra1, extra2 |-> extra2]

\* FrameHeader.pack: struct '<HHBBB2s8s3s12s'
FrameHeader_pack(h) ==
    LE16(h.length) \o LE16(h.crc) \o <<MSGTYPE, h.doctype, h.version>> \o
    StructS(h.extra1, 2) \o StructS(h.devnum, 8) \o StructS(h.docnum, 3) \o
    StructS(h.extra2, 12)

\* cls.STRUCT.unpack(data) for data of 32 bytes: the tuple pack, pack[i] being
\* FrameFields(data)[i + 1].
FrameFields(data) ==
    << U16(SubSeq(data, 1, 2)), U16(SubSeq(data, 3, 4)), data[5], data[6], data[7],
       SubSeq(data, 8, 9), SubSeq(data, 10, 17), SubSeq(data, 18, 20),
       SubSeq(data, 21, 32) >>

\* unpack_from with the two validations in the other order.
FrameHeader_unpack_from_version_first(data) ==
    IF Len(data) # FrameSize THEN Raise(FrameSizeError)
    ELSE LET pack == FrameFields(data)
         IN  IF pack[VERSION_ID + 1] # VERSION THEN Raise(InvalidProtocolVersion)
             ELSE IF pack[MSGTYPE_ID + 1] # MSGTYPE THEN Raise(InvalidMessageType)
             ELSE Ok(FrameHeader_init(pack[1], pack[2], pack[4],
                                      pack[6], pack[7], pack[8], pack[9]))

\* FrameHeader.unpack_from
FrameHeader_unpack_from(data) ==
    IF Len(data) # FrameSize THEN Raise(FrameSizeError)
    ELSE LET pack == FrameFields(data)
         IN  IF pack[MSGTYPE_ID + 1] # MSGTYPE THEN Raise(InvalidMessageType)
             ELSE IF pack[VERSION_ID + 1] # VERSION THEN Raise(InvalidProtocolVersion)
             ELSE Ok(FrameHeader_init(pack[1], pack[2], pack[4],
                                      pack[6], pack[7], pack[8], pack[9]))

\* recalculate_crc that leaves the crc field in the bytes it sums.
FrameHeader_recalculate_crc_whole(h, b) ==
    LET pack == FrameHeader_pack(h)
    IN  [h EXCEPT !.crc = CrcCcittFalse(pack \o b)]

\* FrameHeader.recalculate_crc: the header after the call.
FrameHeader_recalculate_crc(h, b) ==
    LET pack == FrameHeader_pack(h)
    IN  [h EXCEPT !.crc = CrcCcittFalse(SubSeq(pack, 1, 2) \o SliceFrom(pack, 4) \o b)]

\* FrameHeader.unpack_from(buf)
FrameUnpack ==
    /\ status = "call"
    /\ lastOp = "init"
    /\ LET r == FrameHeader_unpack_from(buf)
       IN  IF r.ok
           THEN /\ status' = "done"
                /\ hdr' = <<r.value>>
                /\ UNCHANGED err
           ELSE /\ status' = "error"
                /\ err' = r.err
                /\ UNCHANGED hdr
    /\ lastOp' = "unpack_from"
    /\ UNCHANGED <<tag, buf, stack, returned, body>>

\* The frame bodies: runs of one byte value.
Bodies == { Rep(b, n) : b \in {0, 49}, n \in 0..MaxBodyLen }

\* hdr.recalculate_crc(b)
RecalculateCrc ==
    /\ status = "done"
    /\ hdr # <<>>
    /\ \E b \in Bodies :
        /\ hdr' = <<FrameHeader_recalculate_crc(hdr[1], b)>>
        /\ body' = b
    /\ lastOp' = "recalculate_crc"
    /\ UNCHANGED <<tag, buf, stack, status, returned, err>>

\* The frame header buffers: every field from a few values, and buffers one
\* byte short, one byte long and empty.
FrameBufs ==
    { LE16(l) \o LE16(c) \o <<m, d, v>> \o e1 \o dn \o <<1, 2, 3>> \o e2 :
        l \in {0, 4660}, c \in {0, 48879, 65535}, m \in {MSGTYPE, 0, 164},
        d \in {1, 255}, v \in {VERSION, 0, 2},
        e1 \in {<<0, 0>>, <<165, 1>>},
        dn \in {<<57, 57, 57, 57, 48, 48, 48, 49>>},
        e2 \in {Rep(0, 12), Rep(255, 12)} }

FrameInputs ==
    FrameBufs \cup { Cut(b, 1) : b \in FrameBufs } \cup
    { b \o <<0>> : b \in FrameBufs } \cup {<<>>}

InitFrame ==
    /\ buf \in FrameInputs
    /\ tag = 0
    /\ stack = <<>>
    /\ status = "call"
    /\ returned = <<>>
    /\ err = ""
    /\ hdr = <<>>
    /\ body = <<>>
    /\ lastOp = "init"

NextFrame ==
    \/ FrameUnpack
    \/ RecalculateCrc

SpecFrame == InitFrame /\ [][NextFrame]_vars

----------------------------------------------------------------------------
(* SessionHeader.                                                          *)

MAGIC_ID == 0
PVERS_ID == 1
PVERA_ID == 2
MAGIC == LEValue(<<42, 8, 65, 10>>)
PVERS == U16(<<129, 162>>)
PVERA == U16(<<0, 1>>)
SessionSize == 30

SessionSizeError == "ValueError: data size must be 30"
InvalidSignature == "ValueError: invalid protocol signature"
InvalidSessionVersion == "ValueError: invalid session protocol version"
InvalidAppVersion == "ValueError: invalid application protocol version"

\* SessionHeader.__init__
SessionHeader_init(device_id, length, flags, crc) ==
    [device_id |-> device_id, length |-> length, flags |-> flags, crc |-> crc]

\* SessionHeader.pack: struct '<IHH16sHHH'
SessionHeader_pack(h) ==
    ToLE(MAGIC, 4) \o LE16(PVERS) \o LE16(PVERA) \o StructS(h.device_id, 16) \o
    LE16(h.length) \o LE16(h.flags) \o LE16(h.crc)

\* cls.STRUCT.unpack(data) for data of 30 bytes: the tuple pack, pack[i] being
\* SessionFields(data)[i + 1].
SessionFields(data) ==
    << LEValue(SubSeq(data, 1, 4)), U16(SubSeq(data, 5, 6)), U16(SubSeq(data, 7, 8)),
       SubSeq(data, 9, 24), U16(SubSeq(data, 25, 26)), U16(SubSeq(data, 27, 28)),
       U16(SubSeq(data, 29, 30)) >>

\* unpack_from that validates the versions before the magic.
SessionHeader_unpack_from_versions_first(data) ==
    IF Len(data) # SessionSize THEN Raise(SessionSizeError)
    ELSE LET pack == SessionFields(data)
         IN  IF pack[PVERS_ID + 1] # PVERS THEN Raise(InvalidSessionVersion)
             ELSE IF pack[PVERA_ID + 1] # PVERA THEN Raise(InvalidAppVersion)
             ELSE IF pack[MAGIC_ID + 1] # MAGIC THEN Raise(InvalidSignature)
             ELSE Ok(SessionHeader_init(pack[PVERA_ID + 2], pack[PVERA_ID + 3],
                                        pack[PVERA_ID + 4], pack[PVERA_ID + 5]))

\* SessionHeader.unpack_from
SessionHeader_unpack_from(data) ==
    IF Len(data) # SessionSize THEN Raise(SessionSizeError)
    ELSE LET pack == SessionFields(data)
         IN  IF pack[MAGIC_ID + 1] # MAGIC THEN Raise(InvalidSignature)
             ELSE IF pack[PVERS_ID + 1] # PVERS THEN Raise(InvalidSessionVersion)
             ELSE IF pack[PVERA_ID + 1] # PVERA THEN Raise(InvalidAppVersion)
             ELSE Ok(SessionHeader_init(pack[PVERA_ID + 2], pack[PVERA_ID + 3],
                                        pack[PVERA_ID + 4], pack[PVERA_ID + 5]))

\* SessionHeader.unpack_from(buf)
SessionUnpack ==
    /\ status = "call"
    /\ lastOp = "init"
    /\ LET r == SessionHeader_unpack_from(buf)
       IN  IF r.ok
           THEN /\ status' = "done"
                /\ hdr' = <<r.value>>
                /\ UNCHANGED err
           ELSE /\ status' = "error"
                /\ err' = r.err
                /\ UNCHANGED hdr
    /\ lastOp' = "unpack_from"
    /\ UNCHANGED <<tag, buf, stack, returned, body>>

\* The session header buffers: every field from a few values, and buffers
\* one byte short, one byte long and empty.
SessionBufs ==
    { mg \o ps \o pa \o id \o LE16(l) \o LE16(f) \o LE16(c) :
        mg \in {<<42, 8, 65, 10>>, <<42, 8, 65, 138>>, <<0, 0, 0, 0>>, <<10, 65, 8, 42>>},
        ps \in {<<129, 162>>, <<162, 129>>, <<0, 0>>},
        pa \in {<<0, 1>>, <<1, 0>>, <<0, 2>>},
        id \in {Rep(0, 16), Rep(49, 16)},
        l \in {0, 32}, f \in {0, 20}, c \in {0, 65535} }

SessionInputs ==
    SessionBufs \cup { Cut(b, 1) : b \in SessionBufs } \cup
    { b \o <<0>> : b \in SessionBufs } \cup {<<>>}

InitSession ==
    /\ buf \in SessionInputs
    /\ tag = 0
    /\ stack = <<>>
    /\ status = "call"
    /\ returned = <<>>
    /\ err = ""
    /\ hdr = <<>>
    /\ body = <<>>
    /\ lastOp = "init"

NextSession == SessionUnpack

SpecSession == InitSession /\ [][NextSession]_vars

----------------------------------------------------------------------------
(* Properties of the headers.                                              *)

\* C4: recalculate_crc(body) stores the CRC-16/CCITT-FALSE of the packed
\* length field (bytes 0..1), then msgtype through extra2 (bytes 4..31), then
\* body.  The old crc is not part of the sum, no other field changes, and a
\* second call with the same body stores the same crc.  The checksum is the
\* CCITT-FALSE one: its check value for "123456789" is 0x29B1.
RecalculateCrcCoversAllButCrc ==
    /\ CrcCcittFalse(<<49, 50, 51, 52, 53, 54, 55, 56, 57>>) = 10673
    /\ [][lastOp' = "recalculate_crc" =>
            LET h       == hdr[1]
                h2      == hdr'[1]
                covered == LE16(h.length) \o <<h.msgtype, h.doctype, h.version>> \o
                           h.extra1 \o h.devnum \o h.docnum \o h.extra2 \o body'
            IN  /\ Len(covered) = 30 + Len(body')
                /\ h2.crc = CrcCcittFalse(covered)
                /\ h2 = [h EXCEPT !.crc = h2.crc]]_vars
    /\ [](lastOp = "recalculate_crc" =>
            FrameHeader_recalculate_crc(hdr[1], body) = hdr[1])

\* C4 witness: a header unpacked with crc 0xBEEF whose crc a call with the
\* body "11" has replaced.
RecalculateCrcWitness ==
    /\ lastOp = "recalculate_crc"
    /\ body = <<49, 49>>
    /\ SubSeq(buf, 3, 4) = <<239, 190>>
    /\ hdr[1].crc # 48879
    /\ hdr[1].extra2 = Rep(255, 12)

\* C5: unpack_from fails on a buffer that is not 32 bytes long with the size
\* error; else on byte 4 not 0xA5 with the message type error; else on byte 6
\* not 1 with the protocol version error; else it returns the header whose
\* fields are the buffer's, and pack() of it is the buffer.
FrameUnpackClassifies ==
    /\ Cardinality({FrameSizeError, InvalidMessageType, InvalidProtocolVersion}) = 3
    /\ lastOp = "unpack_from" =>
        IF Len(buf) # 32
        THEN status = "error" /\ err = FrameSizeError /\ hdr = <<>>
        ELSE IF buf[5] # 165
        THEN status = "error" /\ err = InvalidMessageType /\ hdr = <<>>
        ELSE IF buf[7] # 1
        THEN status = "error" /\ err = InvalidProtocolVersion /\ hdr = <<>>
        ELSE /\ status = "done"
             /\ err = ""
             /\ hdr[1].length = buf[1] + 256 * buf[2]
             /\ hdr[1].crc = buf[3] + 256 * buf[4]
             /\ hdr[1].doctype = buf[6]
             /\ hdr[1].extra1 = SubSeq(buf, 8, 9)
             /\ hdr[1].devnum = SubSeq(buf, 10, 17)
             /\ hdr[1].docnum = SubSeq(buf, 18, 20)
             /\ hdr[1].extra2 = SubSeq(buf, 21, 32)
             /\ FrameHeader_pack(hdr[1]) = buf

\* C5 witness: a 32-byte buffer with a wrong message type and a wrong
\* version, rejected for the message type.
FrameUnpackWitness ==
    /\ lastOp = "unpack_from"
    /\ Len(buf) = 32
    /\ buf[5] = 0
    /\ buf[7] = 2
    /\ err = InvalidMessageType

\* C6: SessionHeader.unpack_from checks the length (30), the magic, the
\* session version and the application version in this order and reports
\* the first check that fails, each with an error of its own; when all pass
\* the header holds the buffer's last four fields and pack() of it is the
\* buffer.
SessionUnpackClassifies ==
    /\ Cardinality({SessionSizeError, InvalidSignature, InvalidSessionVersion,
                    InvalidAppVersion}) = 4
    /\ lastOp = "unpack_from" =>
        IF Len(buf) # 30
        THEN status = "error" /\ err = SessionSizeError /\ hdr = <<>>
        ELSE IF SubSeq(buf, 1, 4) # <<42, 8, 65, 10>>
        THEN status = "error" /\ err = InvalidSignature /\ hdr = <<>>
        ELSE IF SubSeq(buf, 5, 6) # <<129, 162>>
        THEN status = "error" /\ err = InvalidSessionVersion /\ hdr = <<>>
        ELSE IF SubSeq(buf, 7, 8) # <<0, 1>>
        THEN status = "error" /\ err = InvalidAppVersion /\ hdr = <<>>
        ELSE /\ status = "done"
             /\ err = ""
             /\ hdr[1].device_id = SubSeq(buf, 9, 24)
             /\ hdr[1].length = buf[25] + 256 * buf[26]
             /\ hdr[1].flags = buf[27] + 256 * buf[28]
             /\ hdr[1].crc = buf[29] + 256 * buf[30]
             /\ SessionHeader_pack(hdr[1]) = buf

\* C6 witness: a 30-byte buffer with a wrong magic and both versions wrong,
\* rejected for the magic.
SessionUnpackWitness ==
    /\ lastOp = "unpack_from"
    /\ Len(buf) = 30
    /\ SubSeq(buf, 1, 4) = <<42, 8, 65, 138>>
    /\ SubSeq(buf, 5, 8) = <<0, 0, 0, 2>>
    /\ err = InvalidSignature

----------------------------------------------------------------------------
(* The wire format as the properties read it: records found by walking the *)
(* declared lengths, and exact arithmetic that does not go through struct. *)

RecTag(data, off) == data[off + 1] + 256 * data[off + 2]
RecLen(data, off) == data[off + 3] + 256 * data[off + 4]

IsContainerTag(t) == t \in DOMAIN DOCUMENTS /\ DOCUMENTS[t].codec = "STLV"

Terminated == status \in {"done", "error"}

\* The call under way is DOCUMENTS[tag].unpack(buf) of a container.
DecodesContainer == lastOp \in {"enter", "fail", "leaf", "nested", "return"}

\* Somewhere a record is expected and fewer than 4 bytes remain for its
\* sub-header or fewer than length bytes for its payload.
RECURSIVE Truncated(_)
Truncated(data) ==
    IF data = <<>> THEN FALSE
    ELSE IF Len(data) < 4 THEN TRUE
    ELSE LET n == RecLen(data, 0)
         IN  IF Len(data) < 4 + n THEN TRUE
             ELSE \/ IsContainerTag(RecTag(data, 0)) /\ Truncated(SubSeq(data, 5, 4 + n))
                  \/ Truncated(SubSeq(data, 5 + n, Len(data)))

\* The offset reached by stepping 4 + length from record to record.
RECURSIVE EndOffset(_, _)
EndOffset(data, off) ==
    IF off + 4 > Len(data) THEN off
    ELSE EndOffset(data, off + 4 + RecLen(data, off))

\* The entries of a buffer whose records are complete: one per record, the
\* record at offset off giving the entry, the next record at off + 4 + length.
RECURSIVE EntriesFrom(_, _)
EntriesFrom(data, off) ==
    IF off >= Len(data) THEN <<>>
    ELSE LET ty      == RecTag(data, off)
             n       == RecLen(data, off)
             payload == SubSeq(data, off + 5, off + 4 + n)
             value   == IF IsContainerTag(ty) THEN EntriesFrom(payload, 0)
                        ELSE Leaf_unpack(DOCUMENTS[ty], payload).value
         IN  <<[name |-> DOCUMENTS[ty].name, value |-> value]>> \o
             EntriesFrom(data, off + 4 + n)

\* Some record of the buffer, at any depth, carries a tag the registry does
\* not hold.
RECURSIVE HasUnknownTag(_)
HasUnknownTag(data) ==
    IF Len(data) < 4 THEN FALSE
    ELSE LET ty == RecTag(data, 0)
             n  == RecLen(data, 0)
         IN  \/ ty \notin DOMAIN DOCUMENTS
             \/ IsContainerTag(ty) /\ HasUnknownTag(Slice(data, 4, 4 + n))
             \/ HasUnknownTag(SliceFrom(data, 4 + n))

\* The payload p breaks the declared size of the document.
SizeViolation(doc, p) ==
    CASE doc.codec = "Byte" -> Len(p) # 1
      [] doc.codec \in {"U32", "UnixTime"} -> Len(p) # 4
      [] OTHER -> Len(p) > doc.maxlen

\* The error the document's codec raises for a payload of a wrong size.
SizeError(doc) ==
    CASE doc.codec \in {"Byte", "U32", "UnixTime"} -> StructError
      [] doc.codec = "String" -> StringTooLong
      [] doc.codec = "VLN" -> VLNTooLong
      [] doc.codec = "FVLN" -> FVLNTooLong
      [] doc.codec = "STLV" -> STLVTooLong

\* Some complete record of the buffer, at any depth, has a payload that
\* breaks the declared size of its document.
RECURSIVE HasSizeViolation(_)
HasSizeViolation(data) ==
    IF Len(data) < 4 \/ Len(data) < 4 + RecLen(data, 0) THEN FALSE
    ELSE LET ty == RecTag(data, 0)
             n  == RecLen(data, 0)
             p  == SubSeq(data, 5, 4 + n)
         IN  \/ /\ ty \in DOMAIN DOCUMENTS
                /\ \/ SizeViolation(DOCUMENTS[ty], p)
                   \/ IsContainerTag(ty) /\ HasSizeViolation(p)
             \/ HasSizeViolation(SubSeq(data, 5 + n, Len(data)))

\* a + b + c on digits held least significant first.
RECURSIVE AddLE(_, _, _)
AddLE(a, b, c) ==
    IF a = <<>> /\ b = <<>> THEN DigitsLE(c)
    ELSE Bind(LAMBDA x : <<x % 10>> \o AddLE(IF a = <<>> THEN a ELSE Tail(a),
                                             IF b = <<>> THEN b ELSE Tail(b),
                                             x \div 10),
              (IF a = <<>> THEN 0 ELSE Head(a)) + (IF b = <<>> THEN 0 ELSE Head(b)) + c)

AddNum(a, b) ==
    Bind(Canon, Bind(Reverse, Bind(LAMBDA ra : AddLE(ra, Reverse(b), 0), Reverse(a))))

\* 256^0 .. 256^7 in decimal digits.
Pow256 ==
    << <<1>>, <<2, 5, 6>>, <<6, 5, 5, 3, 6>>, <<1, 6, 7, 7, 7, 2, 1, 6>>,
       <<4, 2, 9, 4, 9, 6, 7, 2, 9, 6>>,
       <<1, 0, 9, 9, 5, 1, 1, 6, 2, 7, 7, 7, 6>>,
       <<2, 8, 1, 4, 7, 4, 9, 7, 6, 7, 1, 0, 6, 5, 6>>,
       <<7, 2, 0, 5, 7, 5, 9, 4, 0, 3, 7, 9, 2, 7, 9, 3, 6>> >>

\* The sum of b[j] * 256^(j-1) for j from i on.
RECURSIVE SumLE(_, _)
SumLE(b, i) ==
    IF i > Len(b) THEN Zero
    ELSE Bind(LAMBDA rest : Bind(LAMBDA term : AddNum(term, rest),
                                 MulAdd(Pow256[i], b[i], 0)),
              SumLE(b, i + 1))

\* a <= b for digit sequences of one length.
RECURSIVE LexLeq(_, _)
LexLeq(a, b) ==
    IF a = <<>> THEN TRUE
    ELSE IF Head(a) # Head(b) THEN Head(a) < Head(b)
    ELSE LexLeq(Tail(a), Tail(b))

\* n <= 2^64 - 1.
FitsU64(n) ==
    LET top == <<1, 8, 4, 4, 6, 7, 4, 4, 0, 7, 3, 7, 0, 9, 5, 5, 1, 6, 1, 5>>
    IN  Len(n) < Len(top) \/ (Len(n) = Len(top) /\ LexLeq(n, top))

\* The Decimal d is exactly m * 10^x.
SameValue(d, m, x) ==
    IF m = Zero THEN d.digits = Zero
    ELSE LET zd == TrailingZeros(d.digits)
             zm == TrailingZeros(m)
         IN  /\ SubSeq(d.digits, 1, Len(d.digits) - zd) = SubSeq(m, 1, Len(m) - zm)
             /\ d.exp + zd = x + zm

----------------------------------------------------------------------------
(* Properties of the decoder.                                              *)

\* C1 (as claimed): the decode of a buffer fails, and returns nothing,
\* whenever at a point where a sub-record is expected fewer than 4 bytes
\* remain for the sub-header or fewer than length bytes for the payload,
\* whatever exception is taken for the TruncatedRecord error.
TruncatedRecordFails ==
    Terminated /\ DecodesContainer /\ Truncated(buf) =>
        status = "error" /\ returned = <<>>

\* C2 (as claimed): a buffer with a record of an unknown tag, at any depth,
\* fails with the unknown-tag error.
UnknownTagAlwaysReported ==
    Terminated /\ DecodesContainer /\ HasUnknownTag(buf) =>
        status = "error" /\ err = KeyError /\ returned = <<>>

\* The loop is about to read a record whose tag the registry does not hold.
AtUnknownTag ==
    /\ status = "run"
    /\ Len(Top.data) >= 4
    /\ RecTag(Top.data, 0) \notin DOMAIN DOCUMENTS

\* C2 (amended): when the decoder reaches a record of an unknown tag, at any
\* depth, the outermost decode fails there with the unknown-tag error, every
\* enclosing STLV.unpack is left and nothing is returned; a buffer that
\* holds such a record never decodes, though a record that is rejected
\* earlier in wire order is the one reported.
UnknownTagReportedWhenReached ==
    /\ [][AtUnknownTag =>
            status' = "error" /\ err' = KeyError /\ returned' = <<>> /\ stack' = <<>>]_vars
    /\ [](Terminated /\ DecodesContainer /\ HasUnknownTag(buf) =>
            status = "error" /\ returned = <<>>)

\* C2 witness: the unknown tag sits in a nested container, after a record
\* that was decoded.
UnknownTagWitness ==
    /\ buf = Rec(1020, <<>>) \o Rec(1032, Rec(9999, <<>>))
    /\ status = "error"
    /\ err = KeyError
    /\ returned = <<>>

\* C3 (as claimed): a successful decode returns one entry per record in wire
\* order, the k-th from the record at the sum of the 4 + length before it,
\* its value the codec's decode of exactly length payload bytes, and the
\* offsets add up to the buffer length.
EntriesFollowWireOrder ==
    status = "done" /\ DecodesContainer =>
        /\ EndOffset(buf, 0) = Len(buf)
        /\ ~Truncated(buf)
        /\ returned[1] = EntriesFrom(buf, 0)

\* C7: a payload that breaks the declared size of its codec is rejected with
\* the codec's size error: at the call itself, and for a record inside a
\* container, where the whole decode fails before any sub-record of an
\* oversize nested container is read.  An empty String payload is no error
\* and decodes to the empty string.
SizeViolationsRejected ==
    /\ [](lastOp \in {"unpack", "enter"} /\ SizeViolation(DOCUMENTS[tag], buf) =>
            status = "error" /\ err = SizeError(DOCUMENTS[tag]) /\ returned = <<>>)
    /\ [](lastOp = "unpack" /\ DOCUMENTS[tag].codec = "String" /\ buf = <<>> =>
            status = "done" /\ returned = << <<>> >>)
    /\ [][/\ status = "run"
          /\ Len(Top.data) >= 4
          /\ RecTag(Top.data, 0) \in DOMAIN DOCUMENTS
          /\ SizeViolation(DOCUMENTS[RecTag(Top.data, 0)],
                           Slice(Top.data, 4, 4 + RecLen(Top.data, 0)))
          => /\ status' = "error"
             /\ err' = SizeError(DOCUMENTS[RecTag(Top.data, 0)])
             /\ returned' = <<>>
             /\ stack' = <<>>]_vars
    /\ [][/\ status = "run"
          /\ Len(Top.data) >= 4
          /\ RecTag(Top.data, 0) \in DOMAIN DOCUMENTS
          /\ DOCUMENTS[RecTag(Top.data, 0)].codec = "String"
          /\ RecLen(Top.data, 0) = 0
          => /\ status' = "run"
             /\ Len(stack') = Len(stack)
             /\ Top'.result = Append(Top.result,
                    [name |-> DOCUMENTS[RecTag(Top.data, 0)].name, value |-> <<>>])]_vars
    /\ [](Terminated /\ DecodesContainer /\ HasSizeViolation(buf) =>
            status = "error" /\ returned = <<>>)

\* C7 witness: a nested container one byte past its maxlen is rejected for
\* its size, not for the unknown tag of the record it holds.
SizeViolationWitness ==
    /\ buf = Rec(1032, Rec(9999, Rep(65, 30)))
    /\ status = "error"
    /\ err = STLVTooLong

\* C8 (as claimed): an FVLN payload within maxlen decodes, for every
\* exponent byte e and mantissa m, to exactly m * 10^(-e), with e decimal
\* places when e >= 0.
FVLNExactForEveryExponent ==
    lastOp = "unpack" /\ DOCUMENTS[tag].codec = "FVLN"
        /\ Len(buf) <= DOCUMENTS[tag].maxlen =>
        LET e == IF buf = <<>> THEN 0 ELSE Signed8(buf[1])
            m == SumLE(SliceFrom(buf, 1), 1)
        IN  /\ status = "done"
            /\ "digits" \in DOMAIN returned[1]
            /\ SameValue(returned[1], m, -e)
            /\ e >= 0 => returned[1].exp = -e

\* C9: a VLN payload within maxlen decodes to the sum of b[i] * 256^i, which
\* is 0 for the empty payload, at most 2^64 - 1, and unchanged by a zero byte
\* appended to the payload.
VLNLittleEndianValue ==
    lastOp = "unpack" /\ DOCUMENTS[tag].codec = "VLN"
        /\ Len(buf) <= DOCUMENTS[tag].maxlen =>
        /\ status = "done"
        /\ returned = <<SumLE(buf, 1)>>
        /\ buf = <<>> => returned = <<Zero>>
        /\ FitsU64(returned[1])
        /\ Len(buf) < DOCUMENTS[tag].maxlen =>
              VLN_unpack(DOCUMENTS[tag].maxlen, buf \o <<0>>) = Ok(returned[1])

\* C9 witness: the payload FF FF FF FF FF FF FF FF decodes to 2^64 - 1.
VLNWitness ==
    /\ tag = 1020
    /\ lastOp = "unpack"
    /\ buf = Rep(255, 8)
    /\ returned = << <<1, 8, 4, 4, 6, 7, 4, 4, 0, 7, 3, 7, 0, 9, 5, 5, 1, 6, 1, 5>> >>

\* C10: the decode of a buffer ends, with a result or an error.  A loop
\* iteration that does not fail takes at least 4 bytes off the data of its
\* loop, a zero-length record included; a nested container is decoded from
\* a payload at least 4 bytes shorter than the data around it; a loop ends
\* only when no byte remains; and the nesting is at most len(buffer) / 4.
DecodeTerminates ==
    /\ <>Terminated
    /\ [][status = "run" /\ status' = "run" /\ Len(stack') = Len(stack) =>
            Len(Top'.data) + 4 <= Len(Top.data)]_vars
    /\ [][status = "run" /\ status' = "run" /\ Len(stack') = Len(stack) + 1 =>
            Len(Top'.data) + 4 <= Len(Top.data)]_vars
    /\ [][status = "run" /\ status' = "run" /\ Len(stack') = Len(stack) - 1 =>
            /\ Top.data = <<>>
            /\ Len(Top'.data) + 4 <= Len(stack[Len(stack) - 1].data)]_vars
    /\ [][status = "run" /\ status' = "done" => Top.data = <<>>]_vars
    /\ [](status = "run" => Len(stack) - 1 <= Len(buf) \div 4)

\* C10 witness: three containers nested in 12 bytes, each of them empty of
\* payload beyond the next: the nesting reaches len(buffer) / 4.
DecodeTerminatesWitness ==
    /\ buf = Rec(1032, Rec(1032, Rec(1032, <<>>)))
    /\ status = "run"
    /\ Len(stack) = 4
    /\ Top.data = <<>>

====
